---- MODULE Spec2Model ----
(***************************************************************************)
(* Olive node view: NodeViewScene (scene bookkeeping, selection, flow      *)
(* direction), NodeViewItem (node <-> screen coordinates) and              *)
(* ColorSpaceChooser (view combobox refresh).                              *)
(***************************************************************************)
EXTENDS Integers, Sequences, FiniteSets, TLC

VARIABLES
  \* ---- NodeViewScene
  direction_,       \* NodeViewCommon::FlowDirection of the scene
  curved_edges_,    \* bool
  item_map_,        \* set of nodes that have a NodeViewItem (QHash<Node*, NodeViewItem*>)
  item_edges,       \* node -> sequence of edge keys (NodeViewItem::edges_)
  edges_,           \* QVector<NodeViewEdge*>: sequence of edge records
  context_map_,     \* QHash<Node*, NodeViewContext*>: node -> context record
  selected_items,   \* items with isSelected()
  selected_edges,   \* edge keys with isSelected()
  pc,               \* position inside NodeViewScene::clear()
  clear_it,         \* items clear() has still to delete
  clear_i,          \* number of edges qDeleteAll has deleted
  crashed,          \* null dereference in AddEdgeInternal
  clear_had_selection, \* history: something was selected when clear() was entered
  \* ---- NodeViewItem
  flow_dir_,        \* NodeViewCommon::FlowDirection of the item
  cached_node_pos_, \* QPointF, node space
  pos_,             \* QGraphicsItem::pos(), screen space
  font_height,      \* QFontMetrics(QFont()).height()
  font_width,       \* QFontMetricsWidth(QFontMetrics(QFont()), "HHHHHHHHHHHHHHHH")
  node_position,    \* what the last call returned: GetNodePosition()'s point, else QPointF()
  item_last,        \* the last call made on the item
  \* ---- ColorSpaceChooser and its ColorManager
  cm_views,         \* the configuration: display -> its views, in order
  cm_default_view,  \* the configuration: display -> its default view
  display_combobox_,
  view_combobox_,
  update_call       \* history: the last UpdateViews(s) call and the view text it found

sceneVars == <<direction_, curved_edges_, item_map_, item_edges, edges_, context_map_,
               selected_items, selected_edges, pc, clear_it, clear_i, crashed,
               clear_had_selection>>

itemVars == <<flow_dir_, cached_node_pos_, pos_, font_height, font_width, node_position,
              item_last>>

chooserVars == <<cm_views, cm_default_view, display_combobox_, view_combobox_, update_call>>

vars == <<sceneVars, itemVars, chooserVars>>

\* ------------------------------------------------------------------ bounds
MaxEdges == 2

\* ------------------------------------------------------------------ domains
kLeftToRight == "kLeftToRight"
kRightToLeft == "kRightToLeft"
kTopToBottom == "kTopToBottom"
kBottomToTop == "kBottomToTop"
FlowDirection == {kLeftToRight, kRightToLeft, kTopToBottom, kBottomToTop}

Nodes == {"n1", "n2"}
nullptr == "nullptr"

\* key of an edge: (output node, node of the input)
EdgeKey(e) == <<e.output, e.input>>

\* ------------------------------------------------------------------ NodeViewScene
SceneInit ==
  /\ direction_ = kLeftToRight
  /\ curved_edges_ = TRUE
  /\ item_map_ = {}
  /\ item_edges = [n \in Nodes |-> <<>>]
  /\ edges_ = <<>>
  /\ context_map_ = [n \in {} |-> nullptr]
  /\ selected_items = {}
  /\ selected_edges = {}
  /\ pc = "idle"
  /\ clear_it = {}
  /\ clear_i = 0
  /\ crashed = FALSE
  /\ clear_had_selection = FALSE

\* no call is in progress (clear() is the only call modelled in steps)
Idle == ~crashed /\ pc \in {"idle", "cleared"}

RemoveOne(s, x) ==
  IF \E i \in 1..Len(s) : s[i] = x
  THEN LET i == CHOOSE j \in 1..Len(s) : s[j] = x /\ \A k \in 1..(j-1) : s[k] # x
       IN  SubSeq(s, 1, i-1) \o SubSeq(s, i+1, Len(s))
  ELSE s

WithFlowDirection(s, d) == [i \in 1..Len(s) |-> [s[i] EXCEPT !.flow_dir = d]]
WithCurved(s, c) == [i \in 1..Len(s) |-> [s[i] EXCEPT !.curved = c]]

SetFlowDirection_ContextsOnly(direction) ==
  /\ Idle
  /\ direction_' = direction
  /\ context_map_' = [n \in DOMAIN context_map_ |->
        [context_map_[n] EXCEPT !.flow_dir = direction]]
  /\ pc' = "idle"
  /\ UNCHANGED <<curved_edges_, item_map_, item_edges, edges_, selected_items,
                 selected_edges, clear_it, clear_i, crashed, clear_had_selection>>
  /\ UNCHANGED <<itemVars, chooserVars>>

SetFlowDirection(direction) ==
  /\ Idle
  /\ direction_' = direction
  /\ context_map_' = [n \in DOMAIN context_map_ |->
        [context_map_[n] EXCEPT !.flow_dir = direction]]
  /\ edges_' = WithFlowDirection(edges_, direction)
  /\ pc' = "idle"
  /\ UNCHANGED <<curved_edges_, item_map_, item_edges, selected_items, selected_edges,
                 clear_it, clear_i, crashed, clear_had_selection>>
  /\ UNCHANGED <<itemVars, chooserVars>>

SetEdgesAreCurved(curved) ==
  /\ Idle
  /\ IF curved_edges_ # curved
     THEN /\ curved_edges_' = curved
          /\ edges_' = WithCurved(edges_, curved)
     ELSE UNCHANGED <<curved_edges_, edges_>>
  /\ pc' = "idle"
  /\ UNCHANGED <<direction_, item_map_, item_edges, context_map_, selected_items,
                 selected_edges, clear_it, clear_i, crashed, clear_had_selection>>
  /\ UNCHANGED <<itemVars, chooserVars>>

\* QGraphicsScene::selectedItems()
selectedItems == [items |-> selected_items, edges |-> selected_edges]

DeselectAll_NodeItemsOnly ==
  /\ selected_items' = {}
  /\ selected_edges' = selected_edges

DeselectAll ==
  /\ selected_items' = selected_items \ selectedItems.items
  /\ selected_edges' = selected_edges \ selectedItems.edges

DeselectAllCall ==
  /\ Idle
  /\ DeselectAll
  /\ pc' = "idle"
  /\ UNCHANGED <<direction_, curved_edges_, item_map_, item_edges, edges_, context_map_,
                 clear_it, clear_i, crashed, clear_had_selection>>
  /\ UNCHANGED <<itemVars, chooserVars>>

SelectAll ==
  /\ Idle
  /\ selected_items' = item_map_
  /\ selected_edges' = {EdgeKey(edges_[i]) : i \in 1..Len(edges_)}
  /\ pc' = "idle"
  /\ UNCHANGED <<direction_, curved_edges_, item_map_, item_edges, edges_, context_map_,
                 clear_it, clear_i, crashed, clear_had_selection>>
  /\ UNCHANGED <<itemVars, chooserVars>>

\* a press on one item selects it; with the multi-selection modifier the others stay
mousePressEvent(n, multi) ==
  /\ Idle
  /\ n \in item_map_
  /\ selected_items' = IF multi THEN selected_items \cup {n} ELSE {n}
  /\ selected_edges' = IF multi THEN selected_edges ELSE {}
  /\ pc' = "idle"
  /\ UNCHANGED <<direction_, curved_edges_, item_map_, item_edges, edges_, context_map_,
                 clear_it, clear_i, crashed, clear_had_selection>>
  /\ UNCHANGED <<itemVars, chooserVars>>

\* ---- clear(), one step per deletion
ClearBegin ==
  /\ Idle
  /\ clear_had_selection' = (selected_items # {} \/ selected_edges # {})
  /\ DeselectAll
  /\ clear_it' = item_map_
  /\ clear_i' = 0
  /\ pc' = "del_items"
  /\ UNCHANGED <<direction_, curved_edges_, item_map_, item_edges, edges_, context_map_,
                 crashed>>
  /\ UNCHANGED <<itemVars, chooserVars>>

ClearDeleteItem(n) ==
  /\ ~crashed /\ pc = "del_items"
  /\ n \in clear_it
  /\ clear_it' = clear_it \ {n}
  /\ selected_items' = selected_items \ {n}
  /\ item_edges' = [item_edges EXCEPT ![n] = <<>>]
  /\ UNCHANGED <<direction_, curved_edges_, item_map_, edges_, context_map_,
                 selected_edges, pc, clear_i, crashed, clear_had_selection>>
  /\ UNCHANGED <<itemVars, chooserVars>>

ClearItemsDone ==
  /\ ~crashed /\ pc = "del_items"
  /\ clear_it = {}
  /\ item_map_' = {}
  /\ pc' = "del_edges"
  /\ UNCHANGED <<direction_, curved_edges_, item_edges, edges_, context_map_,
                 selected_items, selected_edges, clear_it, clear_i, crashed,
                 clear_had_selection>>
  /\ UNCHANGED <<itemVars, chooserVars>>

ClearDeleteEdge ==
  /\ ~crashed /\ pc = "del_edges"
  /\ clear_i < Len(edges_)
  /\ clear_i' = clear_i + 1
  /\ selected_edges' = selected_edges \ {EdgeKey(edges_[clear_i + 1])}
  /\ UNCHANGED <<direction_, curved_edges_, item_map_, item_edges, edges_, context_map_,
                 selected_items, pc, clear_it, crashed, clear_had_selection>>
  /\ UNCHANGED <<itemVars, chooserVars>>

ClearEdgesDone ==
  /\ ~crashed /\ pc = "del_edges"
  /\ clear_i = Len(edges_)
  /\ edges_' = <<>>
  /\ clear_i' = 0
  /\ pc' = "cleared"
  /\ UNCHANGED <<direction_, curved_edges_, item_map_, item_edges, context_map_,
                 selected_items, selected_edges, clear_it, crashed, clear_had_selection>>
  /\ UNCHANGED <<itemVars, chooserVars>>

\* ---- items, edges, contexts
NodeToUIObject(n) == IF n \in item_map_ THEN n ELSE nullptr

\* the position in edges_ of the first edge from output to input, 0 for nullptr
EdgeToUIObject(output, input) ==
  IF \E i \in 1..Len(edges_) : edges_[i].output = output /\ edges_[i].input = input
  THEN CHOOSE i \in 1..Len(edges_) :
         /\ edges_[i].output = output /\ edges_[i].input = input
         /\ \A k \in 1..(i-1) : ~(edges_[k].output = output /\ edges_[k].input = input)
  ELSE 0

\* the items of the scene are created outside NodeViewScene's own file
AddItem(n) ==
  /\ Idle
  /\ n \notin item_map_
  /\ item_map_' = item_map_ \cup {n}
  /\ pc' = "idle"
  /\ UNCHANGED <<direction_, curved_edges_, item_edges, edges_, context_map_,
                 selected_items, selected_edges, clear_it, clear_i, crashed,
                 clear_had_selection>>
  /\ UNCHANGED <<itemVars, chooserVars>>

\* new NodeViewEdge(output, input, from, to), before the scene configures it
NewEdge(output, input, from, to) ==
  [output |-> output, input |-> input, from |-> from, to |-> to,
   flow_dir |-> kLeftToRight, curved |-> TRUE]

AddEdgeInternal_NoDirection(output, input, from, to) ==
  IF from = nullptr \/ to = nullptr
  THEN /\ crashed' = TRUE
       /\ UNCHANGED <<edges_, item_edges>>
  ELSE /\ edges_' = Append(edges_, [NewEdge(output, input, from, to)
                                     EXCEPT !.curved = curved_edges_])
       /\ item_edges' = [n \in Nodes |->
             item_edges[n] \o (IF n = from THEN << <<output, input>> >> ELSE <<>>)
                          \o (IF n = to THEN << <<output, input>> >> ELSE <<>>)]
       /\ UNCHANGED crashed

AddEdgeInternal(output, input, from, to) ==
  IF from = nullptr \/ to = nullptr
  THEN /\ crashed' = TRUE
       /\ UNCHANGED <<edges_, item_edges>>
  ELSE /\ edges_' = Append(edges_, [NewEdge(output, input, from, to)
                                     EXCEPT !.flow_dir = direction_,
                                            !.curved = curved_edges_])
       /\ item_edges' = [n \in Nodes |->
             item_edges[n] \o (IF n = from THEN << <<output, input>> >> ELSE <<>>)
                          \o (IF n = to THEN << <<output, input>> >> ELSE <<>>)]
       /\ UNCHANGED crashed

AddEdge(output, input) ==
  /\ Idle
  /\ IF EdgeToUIObject(output, input) = 0
     THEN /\ Len(edges_) < MaxEdges
          /\ AddEdgeInternal(output, input, NodeToUIObject(output), NodeToUIObject(input))
     ELSE UNCHANGED <<edges_, item_edges, crashed>>
  /\ pc' = "idle"
  /\ UNCHANGED <<direction_, curved_edges_, item_map_, context_map_, selected_items,
                 selected_edges, clear_it, clear_i, clear_had_selection>>
  /\ UNCHANGED <<itemVars, chooserVars>>

RemoveEdge(output, input) ==
  /\ Idle
  /\ IF EdgeToUIObject(output, input) # 0
     THEN LET edge == edges_[EdgeToUIObject(output, input)]
              from_removed == [n \in Nodes |->
                IF n = edge.from THEN RemoveOne(item_edges[n], EdgeKey(edge))
                ELSE item_edges[n]]
          IN  /\ item_edges' = [n \in Nodes |->
                    IF n = edge.to THEN RemoveOne(from_removed[n], EdgeKey(edge))
                    ELSE from_removed[n]]
              /\ edges_' = RemoveOne(edges_, edge)
              /\ selected_edges' = selected_edges \ {EdgeKey(edge)}
     ELSE UNCHANGED <<item_edges, edges_, selected_edges>>
  /\ pc' = "idle"
  /\ UNCHANGED <<direction_, curved_edges_, item_map_, context_map_, selected_items,
                 clear_it, clear_i, crashed, clear_had_selection>>
  /\ UNCHANGED <<itemVars, chooserVars>>

GetFlowDirection == direction_

AddContext(node) ==
  /\ Idle
  /\ IF node \notin DOMAIN context_map_
     THEN context_map_' = [n \in DOMAIN context_map_ \cup {node} |->
            IF n = node
            THEN [context |-> node, flow_dir |-> GetFlowDirection, curved |-> curved_edges_]
            ELSE context_map_[n]]
     ELSE UNCHANGED context_map_
  /\ pc' = "idle"
  /\ UNCHANGED <<direction_, curved_edges_, item_map_, item_edges, edges_, selected_items,
                 selected_edges, clear_it, clear_i, crashed, clear_had_selection>>
  /\ UNCHANGED <<itemVars, chooserVars>>

RemoveContext(node) ==
  /\ Idle
  /\ context_map_' = [n \in DOMAIN context_map_ \ {node} |-> context_map_[n]]
  /\ pc' = "idle"
  /\ UNCHANGED <<direction_, curved_edges_, item_map_, item_edges, edges_, selected_items,
                 selected_edges, clear_it, clear_i, crashed, clear_had_selection>>
  /\ UNCHANGED <<itemVars, chooserVars>>

Next ==
  \/ \E d \in FlowDirection : SetFlowDirection(d)
  \/ \E c \in BOOLEAN : SetEdgesAreCurved(c)
  \/ DeselectAllCall
  \/ SelectAll
  \/ \E n \in Nodes, multi \in BOOLEAN : mousePressEvent(n, multi)
  \/ ClearBegin
  \/ \E n \in Nodes : ClearDeleteItem(n)
  \/ ClearItemsDone
  \/ ClearDeleteEdge
  \/ ClearEdgesDone
  \/ \E n \in Nodes : AddItem(n)
  \/ \E o \in Nodes, i \in Nodes : AddEdge(o, i)
  \/ \E o \in Nodes, i \in Nodes : RemoveEdge(o, i)
  \/ \E n \in Nodes : AddContext(n)
  \/ \E n \in Nodes : RemoveContext(n)

\* C1: while clear() deletes the items of item_map_ and the edges of edges_ nothing in
\* the scene is selected (DeselectAll ran first), and when clear() returns item_map_
\* and edges_ are both empty.
ClearDeselectsBeforeDeleting ==
  /\ pc \in {"del_items", "del_edges"} => selected_items = {} /\ selected_edges = {}
  /\ pc = "cleared" => item_map_ = {} /\ edges_ = <<>>

\* clear() found a selection, has deleted every item and at least one edge
ClearDeletingAfterSelection ==
  /\ pc = "del_edges" /\ clear_i >= 1
  /\ clear_had_selection

\* C4: every context of context_map_ and every edge of edges_ has the scene's
\* current flow direction.
FlowDirectionEverywhere ==
  /\ \A n \in DOMAIN context_map_ : context_map_[n].flow_dir = GetFlowDirection
  /\ \A i \in 1..Len(edges_) : edges_[i].flow_dir = GetFlowDirection

\* a context and two edges exist under a direction other than the constructor's
FlowDirectionChangedWithContent ==
  /\ direction_ = kBottomToTop
  /\ DOMAIN context_map_ # {}
  /\ Len(edges_) >= 2

\* ------------------------------------------------------------------ qreal
\* qreal is an IEEE 754 binary64. A finite double is sign, a significand of
\* MantissaBits bits (most significant first, leading bit 1 unless the value is zero)
\* and the exponent of its last bit: (-1)^sign * mant * 2^exp.
MantissaBits == 53
\* the paddings, counted in quarters, are below 2^PaddingBits
PaddingBits == 12

RECURSIVE Pow2(_)
Pow2(n) == IF n = 0 THEN 1 ELSE 2 * Pow2(n - 1)
Bits(n, w) == [i \in 1..w |-> (n \div Pow2(w - i)) % 2]
Zeros(w) == [i \in 1..w |-> 0]

Double(sign, exp, hi, w1, w2, w3) ==
  [sign |-> sign, exp |-> exp,
   mant |-> Bits(hi, MantissaBits - 48) \o Bits(w1, 16) \o Bits(w2, 16) \o Bits(w3, 16)]

IsZero(x) == \A i \in 1..Len(x.mant) : x.mant[i] = 0
\* operator== of two doubles
FEq(x, y) == (IsZero(x) /\ IsZero(y)) \/ x = y

StripLeadingZeros(b) ==
  IF \A i \in 1..Len(b) : b[i] = 0 THEN <<>>
  ELSE SubSeq(b, CHOOSE i \in 1..Len(b) : b[i] = 1 /\ \A j \in 1..(i-1) : b[j] = 0, Len(b))

\* b + 1 on the same number of bits; carry tells that it wrapped to zero
Increment(b) ==
  IF \A i \in 1..Len(b) : b[i] = 1 THEN [bits |-> Zeros(Len(b)), carry |-> 1]
  ELSE LET z == CHOOSE i \in 1..Len(b) : b[i] = 0 /\ \A j \in (i+1)..Len(b) : b[j] = 1
       IN  [bits |-> [j \in 1..Len(b) |-> IF j < z THEN b[j] ELSE IF j = z THEN 1 ELSE 0],
            carry |-> 0]

\* the bits dropped when b is cut to MantissaBits bits are not all zero
Inexact(b, sticky) ==
  LET n == StripLeadingZeros(b)
  IN  sticky \/ \E i \in (MantissaBits + 1)..Len(n) : n[i] = 1

\* round-to-nearest-even of (-1)^sign * b * 2^exp (+ a nonzero rest below the last bit
\* when sticky) to a double
Round(sign, b, exp, sticky) ==
  LET n == StripLeadingZeros(b)
      L == Len(n)
  IN  IF L = 0 THEN [sign |-> sign, exp |-> 0, mant |-> Zeros(MantissaBits)]
      ELSE IF L <= MantissaBits
      THEN [sign |-> sign, exp |-> exp - (MantissaBits - L),
            mant |-> n \o Zeros(MantissaBits - L)]
      ELSE LET keep == SubSeq(n, 1, MantissaBits)
               guard == n[MantissaBits + 1]
               rest == sticky \/ \E i \in (MantissaBits + 2)..L : n[i] = 1
               up == guard = 1 /\ (rest \/ keep[MantissaBits] = 1)
               inc == Increment(keep)
           IN  IF ~up THEN [sign |-> sign, exp |-> exp + (L - MantissaBits), mant |-> keep]
               ELSE IF inc.carry = 0
               THEN [sign |-> sign, exp |-> exp + (L - MantissaBits), mant |-> inc.bits]
               ELSE [sign |-> sign, exp |-> exp + (L - MantissaBits) + 1,
                     mant |-> <<1>> \o Zeros(MantissaBits - 1)]

\* The arithmetic works on the significand in limbs of 16 bits, so that every
\* intermediate value (limb * k + carry, rem * 2^16 + limb) stays below 2^31.
RECURSIVE Value(_)
Value(b) == IF b = <<>> THEN 0 ELSE 2 * Value(SubSeq(b, 1, Len(b) - 1)) + b[Len(b)]

Limbs(b) ==
  LET n == (Len(b) + 15) \div 16
      padded == Zeros(16 * n - Len(b)) \o b
  IN  [j \in 1..n |-> Value(SubSeq(padded, 16 * (j - 1) + 1, 16 * j))]

FromLimbs(l) ==
  [i \in 1..(16 * Len(l)) |-> (l[((i - 1) \div 16) + 1] \div Pow2(15 - ((i - 1) % 16))) % 2]

RECURSIVE MulLimbs(_, _, _)
MulLimbs(l, k, carry) ==
  IF l = <<>> THEN <<carry>>
  ELSE LET t == l[Len(l)] * k + carry
       IN  Append(MulLimbs(SubSeq(l, 1, Len(l) - 1), k, t \div 65536), t % 65536)

RECURSIVE DivLimbs(_, _, _, _)
DivLimbs(l, k, rem, q) ==
  IF l = <<>> THEN [q |-> q, rem |-> rem]
  ELSE LET r == 65536 * rem + Head(l)
       IN  DivLimbs(Tail(l), k, r % k, Append(q, r \div k))

\* b * k, for 0 < k < 2^PaddingBits
MulBits(b, k) == FromLimbs(MulLimbs(Limbs(b), k, 0))

\* quotient and remainder of b by k
DivBits(b, k) ==
  LET d == DivLimbs(Limbs(b), k, 0, <<>>)
  IN  [q |-> FromLimbs(d.q), rem |-> d.rem]

\* x * (k4 / 4) and x / (k4 / 4), correctly rounded; k4 / 4 is itself a double
FMul(x, k4) == Round(x.sign, MulBits(x.mant, k4), x.exp - 2, FALSE)
FMulExact(x, k4) == ~Inexact(MulBits(x.mant, k4), FALSE)
FDiv(x, k4) ==
  LET d == DivBits(x.mant \o Zeros(PaddingBits + 2), k4)
  IN  Round(x.sign, d.q, x.exp + 2 - (PaddingBits + 2), d.rem # 0)
FNeg(x) == [x EXCEPT !.sign = 1 - x.sign]

QPointF(x, y) == [x |-> x, y |-> y]
PointEq(p, q) == FEq(p.x, q.x) /\ FEq(p.y, q.y)

\* ------------------------------------------------------------------ NodeViewItem
\* the default font's metrics the view can run under
FontHeights == {15, 18}
FontWidths == {128, 144}

\* node coordinates: 0, 1, -2, 3, 0.1, -0.7
NodeCoordinates ==
  { Double(0, 0, 0, 0, 0, 0),
    Double(0, -52, 16, 0, 0, 0),
    Double(1, -51, 16, 0, 0, 0),
    Double(0, -51, 24, 0, 0, 0),
    Double(0, -56, 25, 39321, 39321, 39322),
    Double(1, -53, 22, 26214, 26214, 26214) }
NodePoints == {QPointF(x, y) : x \in NodeCoordinates, y \in NodeCoordinates}

DefaultTextPadding == font_height \div 4
DefaultItemHeight == font_height + DefaultTextPadding * 2
DefaultItemWidth == font_width

GetFlowOrientation(dir) ==
  IF dir \in {kLeftToRight, kRightToLeft} THEN "Horizontal" ELSE "Vertical"

\* the paddings are counted in quarters: width * 1.5 is width * 6 quarters
DefaultItemHorizontalPadding(dir) ==
  IF GetFlowOrientation(dir) = "Horizontal" THEN DefaultItemWidth * 6
  ELSE DefaultItemWidth * 5

DefaultItemVerticalPadding(dir) ==
  IF GetFlowOrientation(dir) = "Horizontal" THEN DefaultItemHeight * 6
  ELSE DefaultItemHeight * 8

NodeToScreenPoint(p, direction) ==
  LET t == CASE direction = kLeftToRight -> p
             [] direction = kRightToLeft -> QPointF(FNeg(p.x), p.y)
             [] direction = kTopToBottom -> QPointF(p.y, p.x)
             [] direction = kBottomToTop -> QPointF(p.y, FNeg(p.x))
  IN  QPointF(FMul(t.x, DefaultItemHorizontalPadding(direction)),
              FMul(t.y, DefaultItemVerticalPadding(direction)))

ScreenToNodePoint_SameAsForward(p, direction) ==
  LET t == QPointF(FDiv(p.x, DefaultItemHorizontalPadding(direction)),
                   FDiv(p.y, DefaultItemVerticalPadding(direction)))
  IN  CASE direction = kLeftToRight -> t
        [] direction = kRightToLeft -> QPointF(FNeg(t.x), t.y)
        [] direction = kTopToBottom -> QPointF(t.y, t.x)
        [] direction = kBottomToTop -> QPointF(t.y, FNeg(t.x))

ScreenToNodePoint(p, direction) ==
  LET t == QPointF(FDiv(p.x, DefaultItemHorizontalPadding(direction)),
                   FDiv(p.y, DefaultItemVerticalPadding(direction)))
  IN  CASE direction = kLeftToRight -> t
        [] direction = kRightToLeft -> QPointF(FNeg(t.x), t.y)
        [] direction = kTopToBottom -> QPointF(t.y, t.x)
        [] direction = kBottomToTop -> QPointF(FNeg(t.y), t.x)

\* NodeViewItem(): left to right, at the origin
ItemConstructed(height, width) ==
  /\ flow_dir_ = kLeftToRight
  /\ cached_node_pos_ = QPointF(Double(0, 0, 0, 0, 0, 0), Double(0, 0, 0, 0, 0, 0))
  /\ pos_ = QPointF(Double(0, 0, 0, 0, 0, 0), Double(0, 0, 0, 0, 0, 0))
  /\ font_height = height
  /\ font_width = width
  /\ node_position = QPointF(Double(0, 0, 0, 0, 0, 0), Double(0, 0, 0, 0, 0, 0))
  /\ item_last = "NodeViewItem"

\* setPos(NodeToScreenPoint(cached_node_pos_, flow_dir_)) with the values given
UpdateNodePosition(cached, dir) == pos_' = NodeToScreenPoint(cached, dir)

SetNodePosition(pos) ==
  /\ cached_node_pos_' = pos
  /\ UpdateNodePosition(pos, flow_dir_)
  /\ item_last' = "SetNodePosition"
  /\ node_position' = QPointF(Double(0, 0, 0, 0, 0, 0), Double(0, 0, 0, 0, 0, 0))
  /\ UNCHANGED <<flow_dir_, font_height, font_width>>
  /\ UNCHANGED <<sceneVars, chooserVars>>

ItemSetFlowDirection(dir) ==
  /\ flow_dir_' = dir
  /\ UpdateNodePosition(cached_node_pos_, dir)
  /\ item_last' = "SetFlowDirection"
  /\ node_position' = QPointF(Double(0, 0, 0, 0, 0, 0), Double(0, 0, 0, 0, 0, 0))
  /\ UNCHANGED <<cached_node_pos_, font_height, font_width>>
  /\ UNCHANGED <<sceneVars, chooserVars>>

GetNodePosition ==
  /\ node_position' = ScreenToNodePoint(pos_, flow_dir_)
  /\ item_last' = IF item_last = "SetNodePosition" THEN "GetNodePosition after SetNodePosition"
                  ELSE "GetNodePosition"
  /\ UNCHANGED <<flow_dir_, cached_node_pos_, pos_, font_height, font_width>>
  /\ UNCHANGED <<sceneVars, chooserVars>>

ItemNext ==
  \/ \E p \in NodePoints : SetNodePosition(p)
  \/ \E d \in FlowDirection : ItemSetFlowDirection(d)
  \/ GetNodePosition

\* both products NodeToScreenPoint forms from p are representable without rounding
ScalesExactly(p, d) ==
  LET t == IF GetFlowOrientation(d) = "Horizontal" THEN p ELSE QPointF(p.y, p.x)
  IN  /\ FMulExact(t.x, DefaultItemHorizontalPadding(d))
      /\ FMulExact(t.y, DefaultItemVerticalPadding(d))

\* C2 as stated: under every flow direction the node position of the item survives
\* NodeToScreenPoint followed by ScreenToNodePoint, and GetNodePosition() right after
\* SetNodePosition(p) returns p.
RoundTripIsIdentity ==
  /\ \A d \in FlowDirection :
       PointEq(ScreenToNodePoint(NodeToScreenPoint(cached_node_pos_, d), d), cached_node_pos_)
  /\ item_last = "GetNodePosition after SetNodePosition"
       => PointEq(node_position, cached_node_pos_)

\* C2, amended: the same, for the points whose scaled coordinates need no rounding.
RoundTripIsIdentityWhenScalingIsExact ==
  /\ \A d \in FlowDirection :
       ScalesExactly(cached_node_pos_, d) =>
         PointEq(ScreenToNodePoint(NodeToScreenPoint(cached_node_pos_, d), d), cached_node_pos_)
  /\ (item_last = "GetNodePosition after SetNodePosition"
       /\ ScalesExactly(cached_node_pos_, flow_dir_))
       => PointEq(node_position, cached_node_pos_)

\* GetNodePosition() right after SetNodePosition((3, -2)) on a bottom-to-top item
GetAfterSetBottomToTop ==
  /\ item_last = "GetNodePosition after SetNodePosition"
  /\ flow_dir_ = kBottomToTop
  /\ cached_node_pos_ = QPointF(Double(0, -51, 24, 0, 0, 0), Double(1, -51, 16, 0, 0, 0))
  /\ ScalesExactly(cached_node_pos_, flow_dir_)

\* ------------------------------------------------------------------ ColorManager
\* The colour configuration: each display lists its views, and a display's default
\* view is one of the views it lists (the empty string when it lists none).
MaxViews == 2

Displays == {"sRGB", "Rec709"}
ViewNames == {"Film", "Raw", "Log"}
DisplayArguments == Displays \cup {"Unknown"}

Range(q) == {q[i] : i \in 1..Len(q)}
ViewLists ==
  {q \in UNION {[1..n -> ViewNames] : n \in 0..MaxViews} :
     \A i \in 1..Len(q), j \in 1..Len(q) : q[i] = q[j] => i = j}

ListAvailableDisplays == <<"sRGB", "Rec709">>
GetDefaultDisplay == "sRGB"
ListAvailableViews(s) == IF s \in DOMAIN cm_views THEN cm_views[s] ELSE <<>>
GetDefaultView(s) == IF s \in DOMAIN cm_default_view THEN cm_default_view[s] ELSE ""

\* ------------------------------------------------------------------ QComboBox
\* items in order and the current index, counted from 1; 0 is "no current item"
EmptyComboBox == [items |-> <<>>, index |-> 0]
currentText(box) == IF box.index = 0 THEN "" ELSE box.items[box.index]
clear(box) == EmptyComboBox
\* the first item added to an empty box becomes the current one
addItem(box, text) ==
  [items |-> Append(box.items, text),
   index |-> IF box.items = <<>> THEN 1 ELSE box.index]
findText(box, text) ==
  IF text \in Range(box.items)
  THEN CHOOSE i \in 1..Len(box.items) :
         box.items[i] = text /\ \A j \in 1..(i-1) : box.items[j] # text
  ELSE 0
\* a text the box does not hold leaves the current item as it is
setCurrentText(box, text) ==
  IF findText(box, text) # 0 THEN [box EXCEPT !.index = findText(box, text)] ELSE box

RECURSIVE addItems(_, _)
addItems(box, texts) ==
  IF texts = <<>> THEN box ELSE addItems(addItem(box, Head(texts)), Tail(texts))

\* ------------------------------------------------------------------ ColorSpaceChooser
UpdateViews_AlwaysDefault(view_combobox, s) ==
  LET views == ListAvailableViews(s)
      filled == addItems(clear(view_combobox), views)
  IN  setCurrentText(filled, GetDefaultView(s))

\* the view combobox after UpdateViews(s), from the view combobox before it
UpdateViews(view_combobox, s) ==
  LET v == currentText(view_combobox)
      views == ListAvailableViews(s)
      filled == addItems(clear(view_combobox), views)
  IN  IF v \in Range(views)
      THEN setCurrentText(filled, v)
      ELSE setCurrentText(filled, GetDefaultView(s))

\* ColorSpaceChooser(color_manager, ...) under the configuration given
ChooserConstructed(views, default_view) ==
  /\ cm_views = views
  /\ cm_default_view = default_view
  /\ display_combobox_ =
       setCurrentText(addItems(EmptyComboBox, ListAvailableDisplays), GetDefaultDisplay)
  /\ view_combobox_ = UpdateViews(EmptyComboBox, currentText(display_combobox_))
  /\ update_call = [called |-> TRUE, s |-> currentText(display_combobox_), v |-> ""]

\* the slot UpdateViews(s)
UpdateViewsCall(s) ==
  /\ view_combobox_' = UpdateViews(view_combobox_, s)
  /\ update_call' = [called |-> TRUE, s |-> s, v |-> currentText(view_combobox_)]
  /\ UNCHANGED <<cm_views, cm_default_view, display_combobox_>>
  /\ UNCHANGED <<sceneVars, itemVars>>

\* the user picks a display: currentTextChanged reaches UpdateViews when the text changes
DisplayActivated(i) ==
  /\ i \in 1..Len(display_combobox_.items)
  /\ display_combobox_' = [display_combobox_ EXCEPT !.index = i]
  /\ IF currentText(display_combobox_') # currentText(display_combobox_)
     THEN /\ view_combobox_' = UpdateViews(view_combobox_, currentText(display_combobox_'))
          /\ update_call' = [called |-> TRUE, s |-> currentText(display_combobox_'),
                             v |-> currentText(view_combobox_)]
     ELSE UNCHANGED <<view_combobox_, update_call>>
  /\ UNCHANGED <<cm_views, cm_default_view>>
  /\ UNCHANGED <<sceneVars, itemVars>>

\* the user picks a view
ViewActivated(i) ==
  /\ i \in 1..Len(view_combobox_.items)
  /\ view_combobox_' = [view_combobox_ EXCEPT !.index = i]
  /\ update_call' = [update_call EXCEPT !.called = FALSE]
  /\ UNCHANGED <<cm_views, cm_default_view, display_combobox_>>
  /\ UNCHANGED <<sceneVars, itemVars>>

ChooserNext ==
  \/ \E s \in DisplayArguments : UpdateViewsCall(s)
  \/ \E i \in 1..2 : DisplayActivated(i)
  \/ \E i \in 1..(MaxViews + 1) : ViewActivated(i)

Configurations ==
  {c \in [views : [Displays -> ViewLists], default_view : [Displays -> ViewNames \cup {""}]] :
     \A d \in Displays :
        IF c.views[d] = <<>> THEN c.default_view[d] = ""
        ELSE c.default_view[d] \in Range(c.views[d])}

NoViews == [views |-> [d \in Displays |-> <<>>], default_view |-> [d \in Displays |-> ""]]

\* NodeViewScene
Init ==
  /\ SceneInit
  /\ ItemConstructed(15, 128)
  /\ ChooserConstructed(NoViews.views, NoViews.default_view)

Spec == Init /\ [][Next]_vars

\* NodeViewItem
ItemInit ==
  /\ SceneInit
  /\ \E h \in FontHeights, w \in FontWidths : ItemConstructed(h, w)
  /\ ChooserConstructed(NoViews.views, NoViews.default_view)

ItemSpec == ItemInit /\ [][ItemNext]_vars

\* ColorSpaceChooser
ChooserInit ==
  /\ SceneInit
  /\ ItemConstructed(15, 128)
  /\ \E c \in Configurations : ChooserConstructed(c.views, c.default_view)

ChooserSpec == ChooserInit /\ [][ChooserNext]_vars

====
